---- MODULE Spec2Model ----
(***************************************************************************)
(* Order placement (POST /api/orders/webhook) of the storefront: the       *)
(* handler validates the request, then runs the stock / price checks, the  *)
(* stock update, the Order creation and the cart cleanup in one MongoDB    *)
(* transaction (session.withTransaction).  Several requests run            *)
(* concurrently; every await of the handler is one step.                   *)
(*                                                                         *)
(* Prices are fixed-point integers in thousandths of the currency unit,    *)
(* so the tolerance 0.01 of the price check is 10.                         *)
(***************************************************************************)
EXTENDS Integers, Sequences, FiniteSets, TLC

(***************************************************************************)
(* Bounds of the model.                                                    *)
(***************************************************************************)
MaxStock == 2
MaxFaults == 1

(***************************************************************************)
(* The catalogue, the accounts and the carts the requests run against.     *)
(***************************************************************************)
Reqs == {"r1", "r2"}
Products == {"pA", "pB", "pI"}
Users == {"u1", "u2"}
CartIds == {"c1", "c2", "c3"}
NoCart == "none"

Price(p) == CASE p = "pA" -> 1000 [] p = "pB" -> 2500 [] OTHER -> 4000
IsActive(p) == p # "pI"
CartOwner(c) == IF c = "c3" THEN "u2" ELSE "u1"

\* The value NaN of a JavaScript number, outside every range the model uses.
NaN == 0 - 999
IsNaN(x) == x = NaN

(***************************************************************************)
(* parseInt(s, 10) on a string given as its sequence of characters: an     *)
(* optional sign, then the longest run of decimal digits; NaN when there   *)
(* is no digit.                                                            *)
(***************************************************************************)
Digits == <<"0", "1", "2", "3", "4", "5", "6", "7", "8", "9">>
IsDigit(c) == \E i \in 1..10 : Digits[i] = c
DigitVal(c) == (CHOOSE i \in 1..10 : Digits[i] = c) - 1

RECURSIVE ParseDigits(_, _, _)
ParseDigits(s, i, acc) ==
    IF i > Len(s) \/ ~IsDigit(s[i]) THEN acc
    ELSE ParseDigits(s, i + 1, 10 * acc + DigitVal(s[i]))

ParseInt(s) ==
    LET neg == Len(s) > 0 /\ s[1] = "-"
        start == IF Len(s) > 0 /\ s[1] \in {"-", "+"} THEN 2 ELSE 1
    IN  IF start > Len(s) \/ ~IsDigit(s[start]) THEN NaN
        ELSE IF neg THEN 0 - ParseDigits(s, start, 0)
        ELSE ParseDigits(s, start, 0)

\* parseFloat of a JSON number is that number; of a missing price, NaN.
NoPrice == 0 - 998
ParseFloat(x) == IF x = NoPrice THEN NaN ELSE x

\* JavaScript's a < b and Math.abs(a - b) > t on numbers: false on NaN.
JsLess(a, b) == IF IsNaN(a) \/ IsNaN(b) THEN FALSE ELSE a < b
Abs(x) == IF x < 0 THEN 0 - x ELSE x
AbsDiffGreater(a, b, t) ==
    IF IsNaN(a) \/ IsNaN(b) THEN FALSE ELSE Abs(a - b) > t

PriceTolerance == 10

(***************************************************************************)
(* The requests.  A line item is {product, quantity, price, cartId} as the *)
(* client sends it: quantity is the text handed to parseInt, price a JSON  *)
(* number, cartId may be absent.                                           *)
(***************************************************************************)
Line(p, q, pr, c) == [product |-> p, quantity |-> q, price |-> pr, cartId |-> c]

Lines ==
    { Line("pA", <<"1">>, Price("pA"), "c1"),
      Line("pA", <<"2">>, Price("pA"), NoCart),
      Line("pA", <<"1">>, Price("pA") - 5, "c2"),
      Line("pA", <<"1">>, Price("pA") - 500, NoCart),
      Line("pA", <<"2">>, Price("pA") + 500, NoCart),
      Line("pB", <<"1">>, Price("pB"), "c3"),
      Line("pI", <<"1">>, Price("pI"), NoCart),
      Line("pX", <<"1">>, 1000, NoCart),
      Line("pA", <<"-", "1">>, Price("pA"), NoCart),
      Line("pA", <<"a">>, Price("pA"), NoCart) }

CoreLines ==
    { Line("pA", <<"1">>, Price("pA"), "c1"),
      Line("pB", <<"1">>, Price("pB"), "c3") }

ItemsA ==
    { <<l>> : l \in Lines } \cup
    { <<l, m>> : l \in CoreLines, m \in Lines } \cup
    { <<l, m>> : l \in Lines, m \in CoreLines } \cup
    { << Line("pX", <<"1">>, 1000, NoCart), Line("pA", <<"a">>, Price("pA"), NoCart) >> }

Payment(t, n, a, c) ==
    [typePayment |-> t, paymentAccountNumber |-> n, paymentAccountName |-> a,
     isCashPayment |-> c]

\* A body without paymentInfo.
NoPayment == Payment("undefined", "undefined", "undefined", FALSE)

Body(items, pay) == [orderItems |-> items, paymentInfo |-> pay, user |-> "u9"]

BodiesA == { Body(i, Payment("CASH", "777", "Eve", FALSE)) : i \in ItemsA }

BodiesB ==
    { Body(<< Line("pA", <<"1">>, Price("pA"), "c1") >>,
           Payment("WAAFI", "123", "Bob", FALSE)),
      Body(<< Line("pB", <<"1">>, Price("pB"), "c1") >>,
           Payment("CASH", "", "", FALSE)),
      Body(<< Line("pB", <<"1">>, Price("pB"), "c2"),
              Line("pB", <<"1">>, Price("pB"), "c3") >>,
           Payment("WAAFI", "555", "Zoe", TRUE)) }

\* Bodies the validation refuses: no items, no paymentInfo, no payment type,
\* an account payment without its number or without its name.
BodiesMalformed ==
    { Body(<<>>, Payment("WAAFI", "123", "Bob", FALSE)) } \cup
    { Body(<< Line("pA", <<"1">>, Price("pA"), "c1") >>, pay) :
        pay \in { NoPayment,
                  Payment("", "123", "Bob", FALSE),
                  Payment("WAAFI", "", "Bob", FALSE),
                  Payment("WAAFI", "123", "", FALSE) } }

\* The session of the caller: the id of its account, or "anon" without one.
UserIsActive(u) == u \in Users

RequestsA == { [actor |-> "u1", body |-> b] : b \in BodiesA }
RequestsB ==
    { [actor |-> a, body |-> b] : a \in Users, b \in BodiesB } \cup
    { [actor |-> a, body |-> Body(<< Line("pA", <<"1">>, Price("pA"), "c1") >>,
                                  Payment("WAAFI", "123", "Bob", FALSE))] :
        a \in {"u3", "anon"} } \cup
    { [actor |-> "u1", body |-> b] : b \in BodiesMalformed }

(***************************************************************************)
(* Error messages.  error.message?.includes(needle) is case sensitive;     *)
(* Needles(m) lists which of the needles the handler looks for occur in m. *)
(***************************************************************************)
AuthMsg == "Authentication required"
CastMsg == "Cast to Number failed for value NaN at path stock"
FaultMsgs ==
    { "MongoNetworkError: connection closed",
      "Transaction has been aborted",
      "E11000 duplicate key error" }

Needles(m) ==
    CASE m = "MongoNetworkError: connection closed" -> {"MongoNetwork"}
      [] m = "operation exceeded timeout" -> {"timeout"}
      [] m = "Transaction has been aborted" -> {"Transaction"}
      [] OTHER -> {}
Includes(m, needle) == needle \in Needles(m)

(***************************************************************************)
(* State.  stock, sold, orders and carts are the committed contents of the *)
(* Product, Order and Cart collections; txn[r] is the open transaction of  *)
(* request r: its snapshot and its uncommitted writes.  reran[r] records   *)
(* that withTransaction has run the callback of r more than once.          *)
(* nodeEnv is process.env.NODE_ENV; mw is the state of the middleware      *)
(* (its path cache and the request it is handling), which the order        *)
(* handler never touches.  cartApi, pwd, profile, authInst and provider    *)
(* are the states of the cart DELETE handler, of the password handler and  *)
(* the account it works on, of the profile handler, of the lazily          *)
(* initialised auth instance and of the CartProvider of the browser.       *)
(***************************************************************************)
VARIABLES req, stock0, stock, sold, orders, carts, clock, faults,
          pc, orderData, txn, reran, resp, nodeEnv, mw,
          cartApi, pwd, profile, authInst, provider

vars == <<req, stock0, stock, sold, orders, carts, clock, faults,
          pc, orderData, txn, reran, resp, nodeEnv, mw,
          cartApi, pwd, profile, authInst, provider>>

ZeroDelta == [p \in Products |-> 0]

\* NODE_ENV; the development build is run against the requests that end at
\* the authentication of r2.
NodeEnvs == {"production", "development"}

\* The middleware at rest: nothing cached, no request in hand.
MwIdle ==
    [cache |-> {}, path |-> <<>>, session |-> "none", pc |-> "idle",
     result |-> "", callbackUrl |-> <<>>, error |-> ""]

\* The other handlers at rest.
Hex24(c) == [i \in 1..24 |-> c]
CdReqs == {"d1", "d2"}
CdItems0 == { [id |-> Hex24("a"), user |-> "u1"], [id |-> Hex24("b"), user |-> "u2"] }
CdCall(actor, id) ==
    [actor |-> actor, id |-> id, pc |-> "start", user |-> "", status |-> 0,
     code |-> "", threw |-> FALSE]
CdIdle == [items |-> CdItems0, call |-> [d \in CdReqs |-> CdCall("u1", Hex24("a"))]]
PwReqs == {"q1", "q2"}
PwDoc(password, attempts, lock, active) ==
    [password |-> password, loginAttempts |-> attempts, lockUntil |-> lock,
     isActive |-> active]
PwNoCall ==
    [pc |-> "done", session |-> FALSE, valid |-> FALSE, current |-> "p1",
     userDoc |-> PwDoc("p1", 0, 0, TRUE), locked |-> FALSE, invoked |-> FALSE,
     wrote |-> FALSE, status |-> 0, code |-> "", attemptsLeft |-> 0]
PwState(doc) ==
    [doc |-> doc, now |-> 0, call |-> [q \in PwReqs |-> PwNoCall],
     fails |-> doc.loginAttempts, started |-> 0, sessions |-> 0, hookFailed |-> FALSE]
PwIdle == PwState(PwDoc("p1", 0, 0, TRUE))
PfReqs == {"f1", "f2"}
PfState(active, cached, valid, calls) ==
    [doc |-> [f \in {"name", "phone", "avatar", "address", "role", "email",
                     "loginAttempts", "lockUntil"} |-> "old"] @@ [isActive |-> active],
     cache |-> [isActive |-> cached, valid |-> valid],
     call |-> calls]
PfCall(data, isValid) ==
    [pc |-> "start", data |-> data, isValid |-> isValid, docActive |-> TRUE,
     updateData |-> {}, wrote |-> FALSE, status |-> 0]
ProfIdle == PfState(TRUE, TRUE, TRUE, [p \in PfReqs |-> PfCall({}, FALSE)])
AiCallers == {"a1", "a2", "a3"}
AiIdle ==
    [authInstance |-> 0, made |-> 0, calls |-> 0,
     call |-> [a \in AiCallers |-> [pc |-> "idle", got |-> 0]]]
CpCallers == {"c1call", "c2call", "c3call"}
CpIdle ==
    [isLoadingRef |-> FALSE, session |-> TRUE, calls |-> 0,
     call |-> [c \in CpCallers |->
                 [pc |-> "idle", sawLoading |-> FALSE, fetched |-> FALSE,
                  ok |-> FALSE, end |-> ""]]]

NoTxn ==
    [active |-> FALSE, snapStock |-> ZeroDelta, snapCarts |-> {},
     delta |-> ZeroDelta, soldInc |-> ZeroDelta, wrote |-> {}, stale |-> {},
     newOrders |-> {}, cartDel |-> {}, productOrders |-> <<>>, idx |-> 1,
     unavailableProducts |-> <<>>]

NoResp ==
    [status |-> 0, code |-> "", message |-> "", unavailableProducts |-> <<>>,
     orderNumber |-> 0, error |-> "", at |-> "", thrown |-> ""]

Init ==
    /\ req \in { f \in [Reqs -> RequestsA \cup RequestsB] :
                    f["r1"] \in RequestsA /\ f["r2"] \in RequestsB }
    /\ stock0 = [p \in Products |-> IF p = "pA" THEN 1 ELSE MaxStock]
    /\ stock = stock0
    /\ sold = ZeroDelta
    /\ orders = {}
    /\ carts = CartIds
    /\ clock = 0
    /\ faults = 0
    /\ pc = [r \in Reqs |-> "start"]
    /\ orderData = [r \in Reqs |-> req[r].body]
    /\ txn = [r \in Reqs |-> NoTxn]
    /\ reran = [r \in Reqs |-> FALSE]
    /\ resp = [r \in Reqs |-> NoResp]
    /\ nodeEnv \in IF req["r2"].actor \in Users THEN {"production"} ELSE NodeEnvs
    /\ mw = MwIdle
    /\ cartApi = CdIdle /\ pwd = PwIdle /\ profile = ProfIdle
    /\ authInst = AiIdle /\ provider = CpIdle

(***************************************************************************)
(* Responses.  status, code, message, unavailableProducts, orderNumber and *)
(* error (error.message and error.stack, sent in development only) are    *)
(* what the caller receives.  `at` is the step the handler was at when it  *)
(* answered and `thrown` the message of the exception it caught, if any:   *)
(* neither is sent.                                                        *)
(***************************************************************************)
Response(r, st, cd, unav, num) ==
    [status |-> st, code |-> cd, message |-> "", unavailableProducts |-> unav,
     orderNumber |-> num, error |-> "", at |-> pc[r], thrown |-> ""]

\* Mutant: the outer catch without its classification of the message.
ErrorKindUnclassified(m) ==
    [status |-> 500, code |-> "INTERNAL_ERROR",
     message |-> "Failed to process order. Please try again."]

\* The status, code and message the outer catch picks for the message m.
ErrorKind(m) ==
    IF Includes(m, "authentication")
      THEN [status |-> 401, code |-> "AUTH_FAILED", message |-> "Authentication failed"]
    ELSE IF Includes(m, "MongoNetwork")
      THEN [status |-> 503, code |-> "DB_CONNECTION_ERROR",
            message |-> "Database connection error. Please try again"]
    ELSE IF Includes(m, "timeout")
      THEN [status |-> 504, code |-> "TIMEOUT",
            message |-> "Request timeout. Please try again"]
    ELSE IF Includes(m, "Transaction")
      THEN [status |-> 500, code |-> "TRANSACTION_FAILED",
            message |-> "Transaction failed. No charges were made"]
    ELSE [status |-> 500, code |-> "INTERNAL_ERROR",
          message |-> "Failed to process order. Please try again."]

\* Mutant: error.message and error.stack are sent whatever NODE_ENV is.
DebugInfoAlways(env, m) == m

\* ...(process.env.NODE_ENV === "development" && {error: error.message, stack})
DebugInfo(env, m) == IF env = "development" THEN m ELSE ""

\* The outer catch: the response of an exception with message m.
ErrorResponse(r, m) ==
    [Response(r, ErrorKind(m).status, ErrorKind(m).code, <<>>, 0)
        EXCEPT !.message = ErrorKind(m).message,
               !.error = DebugInfo(nodeEnv, m),
               !.thrown = m]

Finish(r, answer) ==
    /\ resp' = [resp EXCEPT ![r] = answer]
    /\ pc' = [pc EXCEPT ![r] = "done"]

(***************************************************************************)
(* 1. Authentication: isAuthenticatedUser throws without a session; an     *)
(* inactive account is refused.                                            *)
(***************************************************************************)
Authenticate(r) ==
    /\ pc[r] = "start"
    /\ IF req[r].actor = "anon"
         THEN Finish(r, ErrorResponse(r, AuthMsg))
       ELSE IF ~UserIsActive(req[r].actor)
         THEN Finish(r, Response(r, 403, "ACCOUNT_SUSPENDED", <<>>, 0))
       ELSE /\ pc' = [pc EXCEPT ![r] = "validate"]
            /\ UNCHANGED resp
    /\ UNCHANGED <<cartApi, pwd, profile, authInst, provider, mw, nodeEnv, req, stock0, stock, sold, orders, carts, clock, faults,
                   orderData, txn, reran>>

(***************************************************************************)
(* 2-4. dbConnect, validation of the body, normalisation of a CASH         *)
(* payment, startSession.                                                  *)
(***************************************************************************)
IsCash(pay) == pay.typePayment = "CASH" \/ pay.isCashPayment = TRUE

\* Mutant: the normalisation overwrites the account number only.
NormalizePaymentNumberOnly(pay) ==
    IF IsCash(pay) THEN [pay EXCEPT !.paymentAccountNumber = "CASH"] ELSE pay

NormalizePayment(pay) ==
    IF IsCash(pay)
    THEN [pay EXCEPT !.paymentAccountNumber = "CASH",
                     !.paymentAccountName = "Paiement en espèces",
                     !.isCashPayment = TRUE]
    ELSE pay

\* Mutant: only the account number is required.
AccountNumberMissing(pay) == pay.paymentAccountNumber = ""

\* !paymentAccountNumber || !paymentAccountName
AccountMissing(pay) == pay.paymentAccountNumber = "" \/ pay.paymentAccountName = ""

ValidateBody(r) ==
    /\ pc[r] = "validate"
    /\ LET od == orderData[r]
           pay == od.paymentInfo
       IN  IF Len(od.orderItems) = 0
             THEN /\ Finish(r, Response(r, 400, "EMPTY_ORDER", <<>>, 0))
                  /\ UNCHANGED orderData
           ELSE IF pay = NoPayment
             THEN /\ Finish(r, Response(r, 400, "MISSING_PAYMENT_INFO", <<>>, 0))
                  /\ UNCHANGED orderData
           ELSE IF pay.typePayment = ""
             THEN /\ Finish(r, Response(r, 400, "", <<>>, 0))
                  /\ UNCHANGED orderData
           ELSE IF ~IsCash(pay) /\ AccountMissing(pay)
             THEN /\ Finish(r, Response(r, 400, "", <<>>, 0))
                  /\ UNCHANGED orderData
           ELSE /\ orderData' =
                      [orderData EXCEPT ![r].paymentInfo = NormalizePayment(pay)]
                /\ pc' = [pc EXCEPT ![r] = "begin"]
                /\ UNCHANGED resp
    /\ UNCHANGED <<cartApi, pwd, profile, authInst, provider, mw, nodeEnv, req, stock0, stock, sold, orders, carts, clock, faults,
                   txn, reran>>

(***************************************************************************)
(* 5. The transaction.  The store gives every transaction a snapshot and   *)
(* refuses (TransientTransactionError, write conflict) a write to a        *)
(* document that another open transaction has written or that was          *)
(* committed after the snapshot; withTransaction then aborts the           *)
(* transaction and runs the callback again.                                *)
(***************************************************************************)
Others(r) == Reqs \ {r}

\* productOrders: the callback builds it from orderData at each run.
ProductOrders(od) ==
    [i \in 1..Len(od.orderItems) |->
        [productId |-> od.orderItems[i].product,
         quantity |-> ParseInt(od.orderItems[i].quantity),
         cartId |-> od.orderItems[i].cartId,
         price |-> ParseFloat(od.orderItems[i].price)]]

BeginAttempt(r) ==
    /\ pc[r] = "begin"
    /\ txn' = [txn EXCEPT ![r] =
                 [NoTxn EXCEPT !.active = TRUE,
                               !.snapStock = stock,
                               !.snapCarts = carts,
                               !.productOrders = ProductOrders(orderData[r])]]
    /\ pc' = [pc EXCEPT ![r] = "find"]
    /\ UNCHANGED <<cartApi, pwd, profile, authInst, provider, mw, nodeEnv, req, stock0, stock, sold, orders, carts, clock, faults,
                   orderData, reran, resp>>

\* Mutant: the read misses the transaction's own earlier updates.
ViewStockWithoutOwnWrites(t, p) == t.snapStock[p]

\* What Product.findById(...).session(session) reads as the stock of p.
ViewStock(t, p) == t.snapStock[p] - t.delta[p]

\* The position after item idx of the loop: the next item, or past the loop.
AfterItem(t) == IF t.idx + 1 > Len(t.productOrders) THEN "create" ELSE "find"

\* Mutant: the loop without its price check.
CheckItemWithoutPrice(t, item) ==
    LET p == item.productId IN
    IF p \notin Products
      THEN [id |-> p, name |-> "Product not found", reason |-> "not_found"]
    ELSE IF ~IsActive(p)
      THEN [id |-> p, name |-> p, reason |-> "product_inactive"]
    ELSE IF JsLess(t.snapStock[p] - t.delta[p], item.quantity)
      THEN [id |-> p, name |-> p, stock |-> t.snapStock[p] - t.delta[p],
            requested |-> item.quantity, reason |-> "insufficient_stock"]
    ELSE [reason |-> "ok"]

\* The entry the loop pushes on unavailableProducts for item, or "ok".
CheckItem(t, item) ==
    LET p == item.productId IN
    IF p \notin Products
      THEN [id |-> p, name |-> "Product not found", reason |-> "not_found"]
    ELSE IF ~IsActive(p)
      THEN [id |-> p, name |-> p, reason |-> "product_inactive"]
    ELSE IF JsLess(ViewStock(t, p), item.quantity)
      THEN [id |-> p, name |-> p, stock |-> ViewStock(t, p),
            requested |-> item.quantity, reason |-> "insufficient_stock"]
    ELSE IF AbsDiffGreater(Price(p), item.price, PriceTolerance)
      THEN [id |-> p, name |-> p, reason |-> "price_mismatch",
            expected |-> Price(p), provided |-> item.price]
    ELSE [reason |-> "ok"]

FindProduct(r) ==
    /\ pc[r] = "find"
    /\ LET t == txn[r]
           verdict == CheckItem(t, t.productOrders[t.idx])
       IN  IF verdict.reason = "ok"
             THEN /\ pc' = [pc EXCEPT ![r] = "update"]
                  /\ UNCHANGED txn
             ELSE /\ txn' = [txn EXCEPT
                       ![r].unavailableProducts = Append(@, verdict),
                       ![r].idx = @ + 1]
                  /\ pc' = [pc EXCEPT ![r] = AfterItem(t)]
    /\ UNCHANGED <<cartApi, pwd, profile, authInst, provider, mw, nodeEnv, req, stock0, stock, sold, orders, carts, clock, faults,
                   orderData, reran, resp>>

\* withTransaction after a TransientTransactionError: abort, run again.
Retry(r) ==
    /\ txn' = [txn EXCEPT ![r] = NoTxn]
    /\ pc' = [pc EXCEPT ![r] = "begin"]
    /\ reran' = [reran EXCEPT ![r] = TRUE]

\* An exception out of the callback: abort, then the catch blocks answer.
Throw(r, m) ==
    /\ txn' = [txn EXCEPT ![r] = NoTxn]
    /\ Finish(r, ErrorResponse(r, m))

\* Mutant: the update runs outside the session, so nothing detects the conflict.
StockConflictUndetected(r, p) == FALSE

StockConflict(r, p) ==
    \/ p \in txn[r].stale
    \/ \E o \in Others(r) : txn[o].active /\ p \in txn[o].wrote

\* Mutant: the update without {session}: it reaches the store at once.
IncStockOutsideSession(r, p, q) ==
    /\ txn' = [txn EXCEPT ![r].idx = @ + 1]
    /\ stock' = [stock EXCEPT ![p] = @ - q]
    /\ sold' = [sold EXCEPT ![p] = @ + q]

\* Mutant: the update decrements by one whatever the quantity.
IncStockByOne(r, p, q) ==
    /\ txn' = [txn EXCEPT ![r].delta[p] = @ + 1, ![r].soldInc[p] = @ + 1,
                          ![r].wrote = @ \cup {p}, ![r].idx = @ + 1]
    /\ UNCHANGED <<stock, sold>>

\* Mutant: the update decrements stock and leaves sold alone.
IncStockWithoutSold(r, p, q) ==
    /\ txn' = [txn EXCEPT ![r].delta[p] = @ + q,
                          ![r].wrote = @ \cup {p}, ![r].idx = @ + 1]
    /\ UNCHANGED <<stock, sold>>

\* Product.findByIdAndUpdate(id, {$inc: {stock: -q, sold: q}}, {session}):
\* a write of the transaction of r, invisible to the store until the commit.
IncStock(r, p, q) ==
    /\ txn' = [txn EXCEPT ![r].delta[p] = @ + q, ![r].soldInc[p] = @ + q,
                          ![r].wrote = @ \cup {p}, ![r].idx = @ + 1]
    /\ UNCHANGED <<stock, sold>>

UpdateStock(r) ==
    /\ pc[r] = "update"
    /\ LET t == txn[r]
           item == t.productOrders[t.idx]
       IN  IF IsNaN(item.quantity)
             THEN Throw(r, CastMsg) /\ UNCHANGED <<reran, stock, sold>>
           ELSE IF StockConflict(r, item.productId)
             THEN Retry(r) /\ UNCHANGED <<resp, stock, sold>>
           ELSE /\ IncStock(r, item.productId, item.quantity)
                /\ pc' = [pc EXCEPT ![r] = AfterItem(t)]
                /\ UNCHANGED <<reran, resp>>
    /\ UNCHANGED <<cartApi, pwd, profile, authInst, provider, mw, nodeEnv, req, stock0, orders, carts, clock, faults, orderData>>

\* JSON.parse(JSON.stringify(x)) of a number: NaN comes back as null.
Null == 0 - 997
JsonNumber(x) == IF IsNaN(x) THEN Null ELSE x
JsonEntry(e) ==
    IF e.reason = "insufficient_stock"
      THEN [e EXCEPT !.stock = JsonNumber(@), !.requested = JsonNumber(@)]
    ELSE IF e.reason = "price_mismatch"
      THEN [e EXCEPT !.expected = JsonNumber(@), !.provided = JsonNumber(@)]
    ELSE e
JsonRoundTrip(list) == [i \in 1..Len(list) |-> JsonEntry(list[i])]

\* orderData.orderItems.forEach(item => delete item.cartId); orderData.user = user.id
StripCartIds(items) == [i \in 1..Len(items) |-> [items[i] EXCEPT !.cartId = NoCart]]

\* Mutant: the user field of the body is kept.
PreparedOrderDataOfBody(od, actor) ==
    [od EXCEPT !.orderItems = StripCartIds(@)]

\* delete item.cartId on every item; orderData.user = user.id.
PreparedOrderData(od, actor) ==
    [od EXCEPT !.orderItems = StripCartIds(@), !.user = actor]

\* The document Order.create([orderData], {session}) inserts.
OrderDoc(r, od, now) ==
    [id |-> now, by |-> r, user |-> od.user, orderItems |-> od.orderItems,
     paymentInfo |-> od.paymentInfo]

\* Mutant: the transaction is aborted only when every item is unavailable.
MustAbortWhenAllFail(t) == Len(t.unavailableProducts) = Len(t.productOrders)

\* if (unavailableProducts.length > 0) throw new Error(STOCK_ERROR ...)
MustAbort(t) == Len(t.unavailableProducts) > 0

CreateOrder(r) ==
    /\ pc[r] = "create"
    /\ LET t == txn[r] IN
       IF MustAbort(t)
         THEN /\ txn' = [txn EXCEPT ![r] = NoTxn]
              /\ Finish(r, Response(r, 409, "STOCK_ERROR",
                                    JsonRoundTrip(t.unavailableProducts), 0))
              /\ UNCHANGED <<orderData, clock>>
         ELSE LET od == PreparedOrderData(orderData[r], req[r].actor) IN
              /\ orderData' = [orderData EXCEPT ![r] = od]
              /\ clock' = clock + 1
              /\ txn' = [txn EXCEPT ![r].newOrders = @ \cup {OrderDoc(r, od, clock + 1)}]
              /\ pc' = [pc EXCEPT ![r] = "cleanup"]
              /\ UNCHANGED resp
    /\ UNCHANGED <<cartApi, pwd, profile, authInst, provider, mw, nodeEnv, req, stock0, stock, sold, orders, carts, faults, reran>>

\* Cart.deleteMany({_id: {$in: cartIds}, user: user.id}, {session}).
CartIdsOf(po) == { po[i].cartId : i \in { j \in 1..Len(po) : po[j].cartId # NoCart } }
\* Mutant: deleteMany without the user filter.
CartTargetsAnyOwner(t, ids, actor) == { c \in t.snapCarts : c \in ids }
CartTargets(t, ids, actor) == { c \in t.snapCarts : c \in ids /\ CartOwner(c) = actor }
CartConflict(r, targets) ==
    \E c \in targets :
        \/ c \notin carts
        \/ \E o \in Others(r) : txn[o].active /\ c \in txn[o].cartDel

ClearCart(r) ==
    /\ pc[r] = "cleanup"
    /\ LET t == txn[r]
           targets == CartTargets(t, CartIdsOf(t.productOrders), req[r].actor)
       IN  IF CartConflict(r, targets)
             THEN Retry(r)
             ELSE /\ txn' = [txn EXCEPT ![r].cartDel = targets]
                  /\ pc' = [pc EXCEPT ![r] = "commit"]
                  /\ UNCHANGED reran
    /\ UNCHANGED <<cartApi, pwd, profile, authInst, provider, mw, nodeEnv, req, stock0, stock, sold, orders, carts, clock, faults,
                   orderData, resp>>

\* commitTransaction: the writes of the transaction become the store's.
Commit(r) ==
    /\ pc[r] = "commit"
    /\ LET t == txn[r] IN
       /\ stock' = [p \in Products |-> stock[p] - t.delta[p]]
       /\ sold' = [p \in Products |-> sold[p] + t.soldInc[p]]
       /\ orders' = orders \cup t.newOrders
       /\ carts' = carts \ t.cartDel
       /\ txn' = [o \in Reqs |->
                    IF o = r THEN NoTxn
                    ELSE IF txn[o].active
                      THEN [txn[o] EXCEPT !.stale = @ \cup t.wrote]
                    ELSE txn[o]]
    /\ pc' = [pc EXCEPT ![r] = "respond"]
    /\ UNCHANGED <<cartApi, pwd, profile, authInst, provider, mw, nodeEnv, req, stock0, clock, faults, orderData, reran, resp>>

\* A transient commit error: withTransaction runs the callback again.
CommitTransient(r) ==
    /\ pc[r] = "commit"
    /\ faults < MaxFaults
    /\ faults' = faults + 1
    /\ Retry(r)
    /\ UNCHANGED <<cartApi, pwd, profile, authInst, provider, mw, nodeEnv, req, stock0, stock, sold, orders, carts, clock,
                   orderData, resp>>

\* Order.findOne({user: user.id}).sort({createdAt: -1}), then the 201.
LatestOrder(u) ==
    CHOOSE o \in orders : o.user = u /\ \A x \in orders : x.user = u => x.id <= o.id

Respond(r) ==
    /\ pc[r] = "respond"
    /\ Finish(r, Response(r, 201, "", <<>>, LatestOrder(req[r].actor).id))
    /\ UNCHANGED <<cartApi, pwd, profile, authInst, provider, mw, nodeEnv, req, stock0, stock, sold, orders, carts, clock, faults,
                   orderData, txn, reran>>

\* A store or connectivity error thrown by the await the handler is at.
FaultPoints == {"validate", "find", "update", "cleanup", "commit", "respond"}
StoreFault(r) ==
    /\ pc[r] \in FaultPoints \/ (pc[r] = "create" /\ txn[r].unavailableProducts = <<>>)
    /\ faults < MaxFaults
    /\ faults' = faults + 1
    /\ \E m \in FaultMsgs : Throw(r, m)
    /\ UNCHANGED <<cartApi, pwd, profile, authInst, provider, mw, nodeEnv, req, stock0, stock, sold, orders, carts, clock,
                   orderData, reran>>

Next ==
    \E r \in Reqs :
        \/ Authenticate(r)
        \/ ValidateBody(r)
        \/ BeginAttempt(r)
        \/ FindProduct(r)
        \/ UpdateStock(r)
        \/ CreateOrder(r)
        \/ ClearCart(r)
        \/ Commit(r)
        \/ CommitTransient(r)
        \/ Respond(r)
        \/ StoreFault(r)

Spec == Init /\ [][Next]_vars

(***************************************************************************)
(* Vocabulary of the properties.                                           *)
(***************************************************************************)
Done(r) == pc[r] = "done"
OrdersBy(r) == { o \in orders : o.by = r }
\* No request other than r has committed an order.
NoOtherCommit(r) == \A o \in orders : o.by = r
Items(r) == req[r].body.orderItems
LineQty(l) == ParseInt(l.quantity)

RECURSIVE ItemsQty(_, _, _)
\* The quantity of product p over the first n lines of items.
ItemsQty(items, p, n) ==
    IF n = 0 THEN 0
    ELSE ItemsQty(items, p, n - 1)
         + (IF items[n].product = p THEN LineQty(items[n]) ELSE 0)

RECURSIVE OrdersQty(_, _)
OrdersQty(S, p) ==
    IF S = {} THEN 0
    ELSE LET o == CHOOSE x \in S : TRUE
         IN  ItemsQty(o.orderItems, p, Len(o.orderItems)) + OrdersQty(S \ {o}, p)

\* The checks of a line, stated on the request and the catalogue.
LineMissing(l) == l.product \notin Products
LineInactive(l) == l.product \in Products /\ ~IsActive(l.product)
LineMismatch(l) ==
    /\ l.product \in Products
    /\ l.price # NoPrice
    /\ Abs(Price(l.product) - l.price) > PriceTolerance
\* Line n asks for more than the initial stock leaves after the lines before it.
LineShort(items, n) ==
    /\ items[n].product \in Products
    /\ ~IsNaN(LineQty(items[n]))
    /\ stock0[items[n].product] - ItemsQty(items, items[n].product, n - 1)
         < LineQty(items[n])
FailsStatically(l) == LineMissing(l) \/ LineInactive(l) \/ LineMismatch(l)

ValidPayment(pay) ==
    /\ pay # NoPayment
    /\ pay.typePayment # ""
    /\ IsCash(pay) \/ (pay.paymentAccountNumber # "" /\ pay.paymentAccountName # "")

\* Every line of the request of r passes every check against the initial store.
AllLinesPass(r) ==
    /\ req[r].actor \in Users
    /\ ValidPayment(req[r].body.paymentInfo)
    /\ Len(Items(r)) > 0
    /\ \A n \in 1..Len(Items(r)) :
          /\ ~FailsStatically(Items(r)[n])
          /\ ~IsNaN(LineQty(Items(r)[n]))
          /\ ~LineShort(Items(r), n)

StoreUntouched ==
    /\ stock = stock0
    /\ sold = ZeroDelta
    /\ orders = {}
    /\ carts = CartIds

(***************************************************************************)
(* C1.  A request with a line that fails a check (product not found,       *)
(* product inactive, stock below the quantity, price off by more than      *)
(* 0.01) creates no Order, and once it has answered, with no other request *)
(* having committed, every stock is what it was: no partial order          *)
(* persists.                                                               *)
(***************************************************************************)
FailedCheck(r) ==
    \/ \E n \in 1..Len(Items(r)) : FailsStatically(Items(r)[n])
    \/ resp[r].code = "STOCK_ERROR"

C1_FailedCheckLeavesNothing ==
    \A r \in Reqs :
        FailedCheck(r) =>
            /\ OrdersBy(r) = {}
            /\ (Done(r) /\ NoOtherCommit(r)) => (stock = stock0 /\ orders = {})

\* A two-line request answered STOCK_ERROR for one line: the other line had
\* passed and its stock update was rolled back.
C1_Witness ==
    \E r \in Reqs :
        /\ Done(r)
        /\ resp[r].code = "STOCK_ERROR"
        /\ Len(Items(r)) = 2
        /\ Len(resp[r].unavailableProducts) = 1
        /\ NoOtherCommit(r)

(***************************************************************************)
(* C2.  A request of an authenticated active actor whose lines all pass    *)
(* the checks, run without a store error and with no other request         *)
(* committing, creates exactly one Order and lowers the stock of each      *)
(* product by exactly the quantity requested; and no request ever has      *)
(* more than one Order.                                                    *)
(***************************************************************************)
C2_ValidOrderCreatedOnce ==
    \A r \in Reqs :
        /\ Cardinality(OrdersBy(r)) <= 1
        /\ (Done(r) /\ AllLinesPass(r) /\ faults = 0 /\ NoOtherCommit(r)) =>
              /\ resp[r].status = 201
              /\ Cardinality(orders) = 1
              /\ \A p \in Products :
                    stock[p] = stock0[p] - ItemsQty(Items(r), p, Len(Items(r)))

C2_Witness ==
    \E r \in Reqs :
        /\ Done(r) /\ AllLinesPass(r) /\ faults = 0 /\ NoOtherCommit(r)
        /\ Len(Items(r)) = 2
        /\ resp[r].status = 201
        /\ \E p \in Products : stock[p] = stock0[p] - 2

(***************************************************************************)
(* C3.  Two concurrent requests, each for the last unit of the same        *)
(* product (stock 1, quantity 1, price accepted): one is answered 201 and  *)
(* the other STOCK_ERROR with the single reason insufficient_stock; never  *)
(* both 201.                                                               *)
(***************************************************************************)
LastUnitLine(l) ==
    /\ l.product \in Products
    /\ IsActive(l.product)
    /\ stock0[l.product] = 1
    /\ LineQty(l) = 1
    /\ ~LineMismatch(l)

LastUnitRace ==
    /\ \A r \in Reqs :
          /\ req[r].actor \in Users
          /\ ValidPayment(req[r].body.paymentInfo)
          /\ Len(Items(r)) = 1
          /\ LastUnitLine(Items(r)[1])
    /\ Items("r1")[1].product = Items("r2")[1].product

LostLastUnit(r) ==
    /\ resp[r].status = 409
    /\ resp[r].code = "STOCK_ERROR"
    /\ Len(resp[r].unavailableProducts) = 1
    /\ resp[r].unavailableProducts[1].reason = "insufficient_stock"
    /\ resp[r].unavailableProducts[1].stock = 0
    /\ resp[r].unavailableProducts[1].requested = 1

C3_LastUnitOneWinner ==
    (LastUnitRace /\ faults = 0) =>
        /\ ~(pc["r1"] \in {"respond", "done"} /\ pc["r2"] \in {"respond", "done"}
             /\ OrdersBy("r1") # {} /\ OrdersBy("r2") # {})
        /\ (Done("r1") /\ Done("r2")) =>
              \E w \in Reqs : \E l \in Reqs \ {w} :
                  /\ resp[w].status = 201
                  /\ OrdersBy(w) # {}
                  /\ LostLastUnit(l)
                  /\ OrdersBy(l) = {}

\* The loser had read the stock 1 too: its update met the write conflict and
\* the callback ran again.
C3_Witness ==
    /\ LastUnitRace /\ faults = 0
    /\ Done("r1") /\ Done("r2")
    /\ \E l \in Reqs : reran[l] /\ LostLastUnit(l)

(***************************************************************************)
(* C4.  Every stock is an integer >= 0 in every state, and the quantity of *)
(* a product over the committed Orders never exceeds its initial stock.    *)
(***************************************************************************)
C4_NoOverselling ==
    \A p \in Products :
        /\ stock[p] \in Nat
        /\ OrdersQty(orders, p) <= stock0[p]
        /\ stock[p] = stock0[p] - OrdersQty(orders, p)

\* Both requests have committed and a product is sold out.
C4_Witness ==
    /\ OrdersBy("r1") # {} /\ OrdersBy("r2") # {}
    /\ \E p \in Products : stock[p] = 0 /\ OrdersQty(orders, p) = stock0[p]

(***************************************************************************)
(* C5.  As claimed: a line whose price is off by more than 0.01 from the   *)
(* stored price always gets the reason price_mismatch and blocks the       *)
(* order.                                                                  *)
(***************************************************************************)
Judged(r) == Done(r) /\ resp[r].at = "create"

C5_AlwaysPriceMismatch ==
    \A r \in Reqs : \A n \in 1..Len(Items(r)) :
        (LineMismatch(Items(r)[n]) /\ Judged(r)) =>
            /\ resp[r].code = "STOCK_ERROR"
            /\ OrdersBy(r) = {}
            /\ \E k \in 1..Len(resp[r].unavailableProducts) :
                  /\ resp[r].unavailableProducts[k].id = Items(r)[n].product
                  /\ resp[r].unavailableProducts[k].reason = "price_mismatch"

(***************************************************************************)
(* C5, amended.  A line whose price is off by more than 0.01 from the      *)
(* stored price always blocks the order (no Order, no stock change), other *)
(* lines being valid or not; when the checks ran to their verdict the      *)
(* answer is STOCK_ERROR and lists the line's product, with the reason of  *)
(* the first check the line fails in the order inactive, stock, price: so  *)
(* price_mismatch when the product is active and its stock covers the      *)
(* quantity.                                                               *)
(***************************************************************************)
MismatchEntry(e, l) ==
    /\ e.id = l.product
    /\ \/ /\ e.reason = "product_inactive"
          /\ ~IsActive(l.product)
       \/ /\ e.reason = "insufficient_stock"
          /\ IsActive(l.product)
          /\ e.requested = LineQty(l)
          /\ e.stock < e.requested
       \/ /\ e.reason = "price_mismatch"
          /\ IsActive(l.product)
          /\ e.expected = Price(l.product)
          /\ e.provided = l.price

C5_MismatchBlocksOrder ==
    \A r \in Reqs : \A n \in 1..Len(Items(r)) :
        LineMismatch(Items(r)[n]) =>
            /\ OrdersBy(r) = {}
            /\ (Done(r) /\ NoOtherCommit(r)) => (stock = stock0 /\ orders = {})
            /\ Judged(r) =>
                  /\ resp[r].code = "STOCK_ERROR"
                  /\ \E k \in 1..Len(resp[r].unavailableProducts) :
                        MismatchEntry(resp[r].unavailableProducts[k], Items(r)[n])
            /\ (Judged(r) /\ n = 1 /\ NoOtherCommit(r)
                  /\ IsActive(Items(r)[1].product) /\ ~LineShort(Items(r), 1)) =>
                  resp[r].unavailableProducts[1].reason = "price_mismatch"

\* A mismatching line first, a valid line second: the order is blocked with
\* the single reason price_mismatch.
C5_Witness ==
    \E r \in Reqs :
        /\ Judged(r)
        /\ Len(Items(r)) = 2
        /\ LineMismatch(Items(r)[1])
        /\ ~FailsStatically(Items(r)[2])
        /\ Len(resp[r].unavailableProducts) = 1
        /\ resp[r].unavailableProducts[1].reason = "price_mismatch"
        /\ stock = stock0

(***************************************************************************)
(* C6.  The price on every line of a persisted Order is the store's price  *)
(* of the product, never the client's.                                     *)
(***************************************************************************)
C6_StorePricePersisted ==
    \A o \in orders : \A n \in 1..Len(o.orderItems) :
        o.orderItems[n].price = Price(o.orderItems[n].product)

(***************************************************************************)
(* C7.  A cart entry is deleted only by a committed request of its owner   *)
(* that referenced it: whatever cart ids a request supplies, the entries   *)
(* of other users stay.                                                    *)
(***************************************************************************)
CartRefs(r) ==
    { Items(r)[n].cartId : n \in { m \in 1..Len(Items(r)) : Items(r)[m].cartId # NoCart } }

C7_ForeignCartsUntouched ==
    \A c \in CartIds \ carts :
        \E r \in Reqs :
            /\ OrdersBy(r) # {}
            /\ req[r].actor = CartOwner(c)
            /\ c \in CartRefs(r)

\* A committed request that named its own entry and another user's: its own
\* is gone, the other's is still there.
C7_Witness ==
    \E r \in Reqs :
        /\ Done(r) /\ resp[r].status = 201
        /\ \E c \in CartRefs(r) : CartOwner(c) = req[r].actor /\ c \notin carts
        /\ \E c \in CartRefs(r) : CartOwner(c) # req[r].actor /\ c \in carts

(***************************************************************************)
(* C8.  After a successful request, also one whose callback the store ran  *)
(* again, no cart entry remains that the request referenced and the actor  *)
(* owns.                                                                   *)
(***************************************************************************)
Committed(r) == pc[r] = "respond" \/ (Done(r) /\ resp[r].at = "respond")

C8_ReferencedCartsCleared ==
    \A r \in Reqs :
        Committed(r) =>
            \A c \in CartRefs(r) : CartOwner(c) = req[r].actor => c \notin carts

(***************************************************************************)
(* C9.  An exception during steps 1-4 (lookup and stock update, the        *)
(* unavailable-items abort, Order creation, cart deletion) leaves nothing: *)
(* the request has no Order, and with no other request having committed,   *)
(* stock, sold, the Orders and the cart entries are what they were.        *)
(***************************************************************************)
Steps1To4 == {"find", "update", "create", "cleanup"}

C9_ExceptionRollsBack ==
    \A r \in Reqs :
        (Done(r) /\ resp[r].at \in Steps1To4) =>
            /\ OrdersBy(r) = {}
            /\ NoOtherCommit(r) => StoreUntouched

\* The cart deletion threw, after the stock updates and the Order creation.
C9_Witness ==
    \E r \in Reqs :
        /\ Done(r) /\ resp[r].at = "cleanup" /\ resp[r].status >= 500
        /\ NoOtherCommit(r)
        /\ StoreUntouched

(***************************************************************************)
(* C10.  The paymentInfo of every persisted Order whose request gave the   *)
(* payment type CASH is account number "CASH", account name "Paiement en   *)
(* espèces", isCashPayment true, whatever account fields the client sent.  *)
(***************************************************************************)
C10_CashNormalized ==
    \A o \in orders :
        req[o.by].body.paymentInfo.typePayment = "CASH" =>
            /\ o.paymentInfo.paymentAccountNumber = "CASH"
            /\ o.paymentInfo.paymentAccountName = "Paiement en espèces"
            /\ o.paymentInfo.isCashPayment = TRUE

\* A persisted CASH order whose client had sent an account number and name.
C10_Witness ==
    \E o \in orders :
        /\ req[o.by].body.paymentInfo.typePayment = "CASH"
        /\ req[o.by].body.paymentInfo.paymentAccountNumber = "777"
        /\ req[o.by].body.paymentInfo.paymentAccountName = "Eve"
        /\ req[o.by].body.paymentInfo.isCashPayment = FALSE

(***************************************************************************)
(* C11.  A request of an active actor with a valid payment, run without a  *)
(* store error, that has a line failing a check is answered STOCK_ERROR    *)
(* (409), never a generic failure, and unavailableProducts lists every     *)
(* failing line: reason not_found for a missing product, product_inactive  *)
(* for an inactive one, insufficient_stock or price_mismatch for a line    *)
(* whose price is off.                                                     *)
(***************************************************************************)
ReachesTransaction(r) ==
    /\ req[r].actor \in Users
    /\ ValidPayment(req[r].body.paymentInfo)
    /\ Len(Items(r)) > 0

StaticReasons(l) ==
    IF LineMissing(l) THEN {"not_found"}
    ELSE IF LineInactive(l) THEN {"product_inactive"}
    ELSE {"insufficient_stock", "price_mismatch"}

FailingLines(r) == { n \in 1..Len(Items(r)) : FailsStatically(Items(r)[n]) }

C11_FailingLinesListed ==
    \A r \in Reqs :
        (Done(r) /\ ReachesTransaction(r) /\ faults = 0 /\ FailingLines(r) # {}) =>
            /\ resp[r].status = 409
            /\ resp[r].code = "STOCK_ERROR"
            /\ Len(resp[r].unavailableProducts) >= Cardinality(FailingLines(r))
            /\ \A n \in FailingLines(r) :
                  \E k \in 1..Len(resp[r].unavailableProducts) :
                      /\ resp[r].unavailableProducts[k].id = Items(r)[n].product
                      /\ resp[r].unavailableProducts[k].reason
                            \in StaticReasons(Items(r)[n])

(***************************************************************************)
(* C12.  A request of an actor that is not authenticated or not active is  *)
(* answered AUTH_FAILED at the authentication step, with the store         *)
(* untouched by it.                                                        *)
(***************************************************************************)
C12_AuthFailedBeforeTransaction ==
    \A r \in Reqs :
        (Done(r) /\ ~UserIsActive(req[r].actor)) =>
            /\ resp[r].code = "AUTH_FAILED"
            /\ resp[r].at = "start"
            /\ OrdersBy(r) = {}

(***************************************************************************)
(* C13.  A failure of the transaction that is not a stock error (the       *)
(* connection or the session failing, a rejected update, a failed Order    *)
(* creation, cart deletion or commit) is answered TRANSACTION_FAILED and   *)
(* leaves no partial state.  As stated it fails; what holds: the answer is *)
(* a failure (status 500 or above, no order number) whose code follows the *)
(* error message - DB_CONNECTION_ERROR for a MongoNetwork error, TIMEOUT   *)
(* for a timeout, TRANSACTION_FAILED for a message naming the Transaction, *)
(* INTERNAL_ERROR for any other - and no partial state is left.            *)
(***************************************************************************)
TransactionSteps == {"validate", "find", "update", "create", "cleanup", "commit"}

TransactionFailure(r) ==
    /\ Done(r)
    /\ resp[r].thrown # ""
    /\ resp[r].at \in TransactionSteps

NoPartialState(r) ==
    /\ OrdersBy(r) = {}
    /\ ~txn[r].active
    /\ NoOtherCommit(r) => StoreUntouched

ExpectedCode(m) ==
    CASE m = "MongoNetworkError: connection closed" -> "DB_CONNECTION_ERROR"
      [] m = "operation exceeded timeout" -> "TIMEOUT"
      [] m = "Transaction has been aborted" -> "TRANSACTION_FAILED"
      [] m = "E11000 duplicate key error" -> "INTERNAL_ERROR"
      [] m = "Cast to Number failed for value NaN at path stock" -> "INTERNAL_ERROR"

StoreMsgs == FaultMsgs \cup {CastMsg}

\* What the caller receives of an answer.
BodyOf(a) ==
    [status |-> a.status, code |-> a.code, message |-> a.message,
     unavailableProducts |-> a.unavailableProducts,
     orderNumber |-> a.orderNumber, error |-> a.error]

StoreErrorAnswered(r) == Done(r) /\ resp[r].thrown \in StoreMsgs

C17_BodyIndependentOfText ==
    \A r \in Reqs :
        StoreErrorAnswered(r) =>
            \A m \in StoreMsgs : BodyOf(ErrorResponse(r, m)) = BodyOf(resp[r])

SameKeywords(m, n) ==
    \A k \in {"authentication", "MongoNetwork", "timeout", "Transaction"} :
        Includes(m, k) <=> Includes(n, k)

C17_BodyFixedByKeywords ==
    \A r \in Reqs :
        StoreErrorAnswered(r) =>
            /\ nodeEnv # "development" =>
                  /\ resp[r].error = ""
                  /\ \A m \in StoreMsgs :
                        SameKeywords(m, resp[r].thrown) =>
                            BodyOf(ErrorResponse(r, m)) = BodyOf(resp[r])
            /\ nodeEnv = "development" => resp[r].error = resp[r].thrown

\* A production run answered for a duplicate-key error: the rejected update
\* of a non-numeric quantity, which has no keyword either, gives the same body.
C17_Witness ==
    \E r \in Reqs :
        /\ StoreErrorAnswered(r)
        /\ nodeEnv = "production"
        /\ resp[r].thrown = "E11000 duplicate key error"
        /\ BodyOf(ErrorResponse(r, CastMsg)) = BodyOf(resp[r])

(***************************************************************************)
(* C14.  A malformed request (no items, no paymentInfo, no payment type,   *)
(* or a payment that is not cash - type CASH or isCashPayment true -       *)
(* without both the account number and the account name) never gets past   *)
(* the validation: no session or transaction is started for it, no         *)
(* Product, Order or cart entry is read or written by it, and its answer   *)
(* is a refusal.                                                           *)
(***************************************************************************)
CashMethod(pay) == pay.typePayment = "CASH" \/ pay.isCashPayment

Malformed(r) ==
    LET pay == req[r].body.paymentInfo IN
    \/ Len(Items(r)) = 0
    \/ pay = NoPayment
    \/ pay.typePayment = ""
    \/ ~CashMethod(pay) /\ (pay.paymentAccountNumber = "" \/ pay.paymentAccountName = "")

C15_ConfirmationOfOwnOrder ==
    \A r \in Reqs :
        (Done(r) /\ resp[r].status = 201) =>
            \E o \in OrdersBy(r) : o.id = resp[r].orderNumber

(***************************************************************************)
(* C16.  Every persisted Order belongs to the authenticated actor of the   *)
(* request that created it, whatever the user field of the body says.      *)
(***************************************************************************)
C16_OrderOwnedByActor ==
    \A o \in orders : o.user = req[o.by].actor

\* A persisted Order whose request body named another user.
C16_Witness ==
    \E o \in orders :
        /\ req[o.by].body.user = "u9"
        /\ req[o.by].actor # req[o.by].body.user
        /\ o.user = req[o.by].actor

(***************************************************************************)
(* C18.  Inventory is conserved: whatever requests have committed or       *)
(* aborted, stock + sold of every Product is its initial stock + sold.     *)
(***************************************************************************)
C18_StockPlusSoldConserved ==
    \A p \in Products : stock[p] + sold[p] = stock0[p] + ZeroDelta[p]

\* Two committed orders have moved units from stock to sold; every unit sold
\* is a unit of one of the Orders.
C18_Witness ==
    /\ Cardinality(orders) = 2
    /\ \E p \in Products : sold[p] > 0 /\ stock[p] = stock0[p] - sold[p]
    /\ \A p \in Products : sold[p] = OrdersQty(orders, p)

(***************************************************************************)
(* C19.  No request raises the stock of a Product or lowers its sold       *)
(* counter: the stock update is reached only with a quantity that is a     *)
(* positive number, and the stock never exceeds the initial one nor is     *)
(* sold ever negative.                                                     *)
(***************************************************************************)
C19_OnlyPositiveQuantities ==
    /\ \A r \in Reqs :
          pc[r] = "update" =>
              LET q == txn[r].productOrders[txn[r].idx].quantity
              IN  ~IsNaN(q) /\ q > 0
    /\ \A p \in Products : stock[p] <= stock0[p] /\ sold[p] >= 0

(***************************************************************************)
(* The middleware (src/middleware.js).  A path is the sequence of the      *)
(* pieces its string is the concatenation of, cut so that one path or      *)
(* pattern is a string prefix of another exactly when its sequence is a    *)
(* prefix of the other's: path.startsWith(pattern) is StartsWith.          *)
(***************************************************************************)
StartsWith(path, prefix) ==
    /\ Len(prefix) <= Len(path)
    /\ SubSeq(path, 1, Len(prefix)) = prefix

PROTECTED_PATHS ==
    { <<"/api/", ":path*">>, <<"/me/", ":path*">>, <<"/cart">>, <<"/payment">>,
      <<"/review-order">>, <<"/confirmation">> }

PUBLIC_PATHS ==
    { <<"/login">>, <<"/register">>, <<"/product">>, <<"/_next/">>,
      <<"/favicon.ico">>, <<"/images", "/">> }

\* The negative lookahead of config.matcher: the middleware is not run for
\* a path that starts with one of these.
MatcherExcluded ==
    { <<"/api/", "auth">>, <<"/_next/", "static">>, <<"/_next/", "image">>,
      <<"/favicon.ico">>, <<"/robots.txt">>, <<"/sitemap.xml">>, <<"/images">>,
      <<"/fonts">>, <<"/public">> }

Matcher(path) == ~\E x \in MatcherExcluded : StartsWith(path, x)

\* The paths of the requests sent to the application.
MwPaths ==
    { <<"/api/", "orders", "/webhook">>, <<"/api/", ":path*">>, <<"/api/", "auth", "/session">>,
      <<"/me/", "update">>, <<"/cart">>, <<"/payment">>, <<"/review-order">>,
      <<"/confirmation">>, <<"/login">>, <<"/register">>, <<"/product", "/42">>,
      <<"/">>, <<"/robots.txt">> }

\* auth.api.getSession: a session, null, or an exception.
MwSessions == {"valid", "none", "error"}

IsPublic(path) == \E x \in PUBLIC_PATHS : StartsWith(path, x)
IsProtected(path) == \E x \in PROTECTED_PATHS : StartsWith(path, x)

orderVars ==
    <<req, stock0, stock, sold, orders, carts, clock, faults,
      pc, orderData, txn, reran, resp, nodeEnv>>

\* What each of the other components leaves alone.
mwRest == <<orderVars, cartApi, pwd, profile, authInst, provider>>
cdRest == <<orderVars, mw, pwd, profile, authInst, provider>>
pwRest == <<orderVars, mw, cartApi, profile, authInst, provider>>
profRest == <<orderVars, mw, cartApi, pwd, authInst, provider>>
aiRest == <<orderVars, mw, cartApi, pwd, profile, provider>>
cpRest == <<orderVars, mw, cartApi, pwd, profile, authInst>>

\* A request arrives on a path the matcher gives to the middleware.
MwReceive ==
    /\ mw.pc \in {"idle", "done"}
    /\ \E path \in MwPaths : \E session \in MwSessions :
          /\ Matcher(path)
          /\ mw' = [MwIdle EXCEPT !.cache = mw.cache, !.path = path,
                                  !.session = session, !.pc = "route"]
    /\ UNCHANGED mwRest

\* A request arrives on a path the matcher excludes: it is served without
\* the middleware.
MwBypass ==
    /\ mw.pc \in {"idle", "done"}
    /\ \E path \in MwPaths : \E session \in MwSessions :
          /\ ~Matcher(path)
          /\ mw' = [MwIdle EXCEPT !.cache = mw.cache, !.path = path,
                                  !.session = session, !.pc = "done",
                                  !.result = "next"]
    /\ UNCHANGED mwRest

\* Lines 38-59: the cache, the public paths, the protected paths.
MwRoute ==
    /\ mw.pc = "route"
    /\ IF mw.path \in mw.cache
         THEN mw' = [mw EXCEPT !.pc = "done", !.result = "next"]
       ELSE IF IsPublic(mw.path)
         THEN mw' = [mw EXCEPT !.pc = "done", !.result = "next",
                               !.cache = @ \cup {mw.path}]
       ELSE IF ~IsProtected(mw.path)
         THEN mw' = [mw EXCEPT !.pc = "done", !.result = "next"]
       ELSE mw' = [mw EXCEPT !.pc = "auth"]
    /\ UNCHANGED mwRest

\* Lines 61-98: getSession and the answer.
MwAuth ==
    /\ mw.pc = "auth"
    /\ IF mw.session = "error"
         THEN mw' = [mw EXCEPT !.pc = "done", !.result = "redirect",
                               !.error = "auth_error"]
       ELSE IF mw.session = "none"
         THEN mw' = [mw EXCEPT !.pc = "done", !.result = "redirect",
                               !.callbackUrl = mw.path]
       ELSE mw' = [mw EXCEPT !.pc = "done", !.result = "next"]
    /\ UNCHANGED mwRest

\* The order handler at rest while another component runs.
RestInit ==
    /\ req = [r \in Reqs |->
                [actor |-> "anon",
                 body |-> Body(<< Line("pA", <<"1">>, Price("pA"), "c1") >>,
                               Payment("WAAFI", "123", "Bob", FALSE))]]
    /\ stock0 = [p \in Products |-> IF p = "pA" THEN 1 ELSE MaxStock]
    /\ stock = stock0
    /\ sold = ZeroDelta
    /\ orders = {}
    /\ carts = CartIds
    /\ clock = 0
    /\ faults = 0
    /\ pc = [r \in Reqs |-> "start"]
    /\ orderData = [r \in Reqs |-> req[r].body]
    /\ txn = [r \in Reqs |-> NoTxn]
    /\ reran = [r \in Reqs |-> FALSE]
    /\ resp = [r \in Reqs |-> NoResp]
    /\ nodeEnv = "production"

InitMw ==
    /\ RestInit
    /\ mw = MwIdle
    /\ cartApi = CdIdle /\ pwd = PwIdle /\ profile = ProfIdle
    /\ authInst = AiIdle /\ provider = CpIdle

NextMw == MwReceive \/ MwBypass \/ MwRoute \/ MwAuth

SpecMw == InitMw /\ [][NextMw]_vars

(***************************************************************************)
(* C20.  A request without a valid session on a protected route - a path   *)
(* under /api/ other than /api/auth, a path under /me/, or /cart,          *)
(* /payment, /review-order, /confirmation - is never let through: the      *)
(* middleware answers it with a redirect to /login whose callbackUrl is    *)
(* the path.                                                               *)
(***************************************************************************)
ProtectedRoute(path) ==
    \/ StartsWith(path, <<"/api/">>) /\ ~StartsWith(path, <<"/api/", "auth">>)
    \/ StartsWith(path, <<"/me/">>)
    \/ path \in {<<"/cart">>, <<"/payment">>, <<"/review-order">>, <<"/confirmation">>}

C20_ProtectedRouteRedirects ==
    (mw.pc = "done" /\ ProtectedRoute(mw.path) /\ mw.session = "none") =>
        /\ mw.result = "redirect"
        /\ mw.callbackUrl = mw.path

(***************************************************************************)
(* DELETE /api/cart/[id] (src/unnamed/part_002).  An id is the sequence of *)
(* its characters.  cartApi.items is the Cart collection; cartApi.call[d]  *)
(* is a request: the user of its session, the id of its path, the step it  *)
(* is at and its answer.  The session of every request is one that         *)
(* isAuthenticatedUser accepts, and req.user is its user.                  *)
(***************************************************************************)
HexChars ==
    {"0", "1", "2", "3", "4", "5", "6", "7", "8", "9",
     "a", "b", "c", "d", "e", "f", "A", "B", "C", "D", "E", "F"}

\* id && /^[0-9a-fA-F]{24}$/.test(id)
ValidId(id) == Len(id) = 24 /\ \A i \in 1..Len(id) : id[i] \in HexChars

\* The ids asked for: two items, no item, a letter out of range, 23
\* characters, none.
CdIds ==
    { Hex24("a"), Hex24("b"), Hex24("F"), Hex24("g"), [i \in 1..23 |-> "a"], <<>> }

\* The users of the sessions; u5 has no document in the User collection.
CdActors == {"u1", "u2", "u5"}
CdUserDocs == {"u1", "u2"}

CdAnswer(d, st, code) ==
    cartApi' = [cartApi EXCEPT !.call[d].pc = "done", !.call[d].status = st,
                               !.call[d].code = code]

CdGoto(d, to) == cartApi' = [cartApi EXCEPT !.call[d].pc = to]

\* await isAuthenticatedUser(req, NextResponse); await dbConnect()
CdAuthenticate(d) ==
    /\ cartApi.call[d].pc = "start"
    /\ CdGoto(d, "validate")
    /\ UNCHANGED cdRest

CdValidateId(d) ==
    /\ cartApi.call[d].pc = "validate"
    /\ IF ~ValidId(cartApi.call[d].id)
         THEN CdAnswer(d, 400, "INVALID_ID")
         ELSE CdGoto(d, "user")
    /\ UNCHANGED cdRest

\* User.findOne({email: req.user.email}).select("_id")
CdFindUser(d) ==
    /\ cartApi.call[d].pc = "user"
    /\ IF cartApi.call[d].actor \notin CdUserDocs
         THEN CdAnswer(d, 404, "USER_NOT_FOUND")
         ELSE cartApi' = [cartApi EXCEPT !.call[d].pc = "item",
                                         !.call[d].user = cartApi.call[d].actor]
    /\ UNCHANGED cdRest

\* Mutant: the handler without its ownership test.
CdOwnsAny(item, user) == TRUE

\* cartItem.user.toString() === user._id.toString()
CdOwns(item, user) == item.user = user

\* Cart.findById(id), then the ownership test.
CdFindItem(d) ==
    /\ cartApi.call[d].pc = "item"
    /\ LET found == { x \in cartApi.items : x.id = cartApi.call[d].id } IN
       IF found = {}
         THEN CdAnswer(d, 404, "CART_ITEM_NOT_FOUND")
       ELSE IF ~CdOwns(CHOOSE x \in found : TRUE, cartApi.call[d].user)
         THEN CdAnswer(d, 403, "UNAUTHORIZED_DELETE")
       ELSE CdGoto(d, "delete")
    /\ UNCHANGED cdRest

\* Cart.findByIdAndDelete(id)
CdDelete(d) ==
    /\ cartApi.call[d].pc = "delete"
    /\ cartApi' = [cartApi EXCEPT
                     !.items = { x \in @ : x.id # cartApi.call[d].id },
                     !.call[d].pc = "list"]
    /\ UNCHANGED cdRest

\* Cart.find({user: user._id}) and the 200 answer.
CdList(d) ==
    /\ cartApi.call[d].pc = "list"
    /\ CdAnswer(d, 200, "")
    /\ UNCHANGED cdRest

\* An await of the handler throws: the catch answers 500.
CdThrow(d) ==
    /\ cartApi.call[d].pc \in {"start", "user", "item", "delete", "list"}
    /\ cartApi' = [cartApi EXCEPT !.call[d].pc = "done", !.call[d].status = 500,
                                  !.call[d].code = "INTERNAL_ERROR",
                                  !.call[d].threw = TRUE]
    /\ UNCHANGED cdRest

InitCd ==
    /\ RestInit
    /\ mw = MwIdle
    /\ cartApi \in { [items |-> CdItems0, call |-> c] :
                       c \in [CdReqs -> { CdCall(a, i) : a \in CdActors, i \in CdIds }] }
    /\ pwd = PwIdle /\ profile = ProfIdle /\ authInst = AiIdle /\ provider = CpIdle

NextCd ==
    \E d \in CdReqs :
        \/ CdAuthenticate(d)
        \/ CdValidateId(d)
        \/ CdFindUser(d)
        \/ CdFindItem(d)
        \/ CdDelete(d)
        \/ CdList(d)
        \/ CdThrow(d)

SpecCd == InitCd /\ [][NextCd]_vars

(***************************************************************************)
(* C21.  A cart item is deleted only by a request of its owner.  A request *)
(* that has answered without an exception: for an item of another user it  *)
(* answered 403 UNAUTHORIZED_DELETE, for a malformed id 400, for an id of  *)
(* no item 404, and in each of these cases it deleted nothing.             *)
(***************************************************************************)
CdAnswered(d) == cartApi.call[d].pc = "done" /\ ~cartApi.call[d].threw

\* d has run, or is past, its findByIdAndDelete.
CdDeleter(d, item) ==
    /\ cartApi.call[d].id = item.id
    /\ cartApi.call[d].pc \in {"list", "done"}
    /\ cartApi.call[d].status \in {0, 200, 500}

C21_OnlyOwnerDeletes ==
    /\ \A item \in CdItems0 \ cartApi.items :
          \E d \in CdReqs : CdDeleter(d, item) /\ cartApi.call[d].actor = item.user
    /\ \A d \in CdReqs :
          LET c == cartApi.call[d] IN
          CdAnswered(d) =>
              /\ ~ValidId(c.id) => c.status = 400
              /\ (ValidId(c.id) /\ \A x \in CdItems0 : x.id # c.id) => c.status = 404
              /\ (c.actor \in CdUserDocs
                    /\ \E x \in cartApi.items : x.id = c.id /\ x.user # c.actor) =>
                        (c.status = 403 /\ c.code = "UNAUTHORIZED_DELETE")
              /\ c.status \in {400, 403, 404} =>
                    \A x \in CdItems0 \ cartApi.items :
                        \E e \in CdReqs \ {d} : CdDeleter(e, x)

\* u2 was refused the item of u1, which is still there, while u2's own
\* item was deleted by the other request.
C21_Witness ==
    \E d \in CdReqs : \E e \in CdReqs \ {d} :
        /\ CdAnswered(d) /\ CdAnswered(e)
        /\ cartApi.call[d].actor = "u2" /\ cartApi.call[d].id = Hex24("a")
        /\ cartApi.call[d].status = 403
        /\ cartApi.call[e].actor = "u2" /\ cartApi.call[e].status = 200
        /\ cartApi.items = { [id |-> Hex24("a"), user |-> "u1"] }

(***************************************************************************)
(* PUT /api/auth/me/update_password (src/unnamed/part_004, 170-428) and    *)
(* the session.create.after hook (src/lib/auth.js, 201-238).               *)
(* pwd.doc is the document of the user in the "user" collection, with      *)
(* lockUntil = 0 for an absent lockUntil; pwd.now is the time in minutes.  *)
(* pwd.call[q] is a request: its inputs, the step it is at, the userDoc it *)
(* read and its answer.  pwd.fails counts the answers                      *)
(* INVALID_CURRENT_PASSWORD since the last reset of the counters.          *)
(***************************************************************************)
MAX_LOGIN_ATTEMPTS == 5
LOCK_TIME == 30

\* Minutes that pass in one step of the clock, and the last time modelled.
PwTickLen == 40
MaxNow == 40
\* Requests and sessions started in one behaviour.
MaxStarted == 2
MaxSessions == 1

Passwords == {"p1", "p2"}
\* The newPassword of every request.
PwNew == "p2"

\* Mutant: a lock that is never seen.
IsLockedNever(doc, now) == FALSE

\* userDoc.lockUntil && new Date(userDoc.lockUntil) > new Date()
IsLocked(doc, now) == doc.lockUntil # 0 /\ doc.lockUntil > now

PwAnswer(q, st, code) ==
    pwd' = [pwd EXCEPT !.call[q].pc = "done", !.call[q].status = st,
                       !.call[q].code = code]

\* A request arrives.
PwBegin(q) ==
    /\ pwd.call[q].pc = "done"
    /\ pwd.started < MaxStarted
    /\ \E s \in BOOLEAN, v \in BOOLEAN, c \in Passwords :
         pwd' = [pwd EXCEPT !.started = @ + 1,
                            !.call[q] = [PwNoCall EXCEPT !.pc = "start", !.session = s,
                                                         !.valid = v, !.current = c]]
    /\ UNCHANGED pwRest

\* getAuth(), auth.api.getSession()
PwAuthenticate(q) ==
    /\ pwd.call[q].pc = "start"
    /\ IF ~pwd.call[q].session
         THEN PwAnswer(q, 401, "NOT_AUTHENTICATED")
         ELSE pwd' = [pwd EXCEPT !.call[q].pc = "validate"]
    /\ UNCHANGED pwRest

\* req.json(), validatePasswordUpdate()
PwValidate(q) ==
    /\ pwd.call[q].pc = "validate"
    /\ IF ~pwd.call[q].valid
         THEN PwAnswer(q, 400, "VALIDATION_FAILED")
         ELSE pwd' = [pwd EXCEPT !.call[q].pc = "read"]
    /\ UNCHANGED pwRest

\* dbConnect(), findOne({id: user.id}), then the tests of isActive and of the
\* lock, up to the call of auth.api.changePassword.
PwRead(q) ==
    /\ pwd.call[q].pc = "read"
    /\ LET c == [pwd.call[q] EXCEPT !.userDoc = pwd.doc,
                                    !.locked = (pwd.doc.lockUntil > pwd.now)] IN
       IF pwd.doc.isActive = FALSE
         THEN pwd' = [pwd EXCEPT !.call[q] =
                        [c EXCEPT !.pc = "done", !.status = 403,
                                  !.code = "ACCOUNT_SUSPENDED"]]
       ELSE IF IsLocked(pwd.doc, pwd.now)
         THEN pwd' = [pwd EXCEPT !.call[q] =
                        [c EXCEPT !.pc = "done", !.status = 423,
                                  !.code = "ACCOUNT_LOCKED"]]
       ELSE pwd' = [pwd EXCEPT !.call[q] = [c EXCEPT !.pc = "change", !.invoked = TRUE]]
    /\ UNCHANGED pwRest

\* auth.api.changePassword returns: the password is replaced when the current
\* password is the stored one, and an error is returned when it is not.
PwChange(q) ==
    /\ pwd.call[q].pc = "change"
    /\ IF pwd.call[q].current = pwd.doc.password
         THEN pwd' = [pwd EXCEPT !.doc.password = PwNew, !.call[q].pc = "reset",
                                 !.call[q].wrote = TRUE]
         ELSE pwd' = [pwd EXCEPT !.call[q].pc = "increment"]
    /\ UNCHANGED pwRest

\* if (!result || result.error): the counter of the userDoc read plus one,
\* the lock from MAX_LOGIN_ATTEMPTS on, and the 400 answer.
PwIncrement(q) ==
    /\ pwd.call[q].pc = "increment"
    /\ LET loginAttempts == pwd.call[q].userDoc.loginAttempts + 1
           attemptsLeft == IF MAX_LOGIN_ATTEMPTS - loginAttempts > 0
                             THEN MAX_LOGIN_ATTEMPTS - loginAttempts ELSE 0 IN
       pwd' = [pwd EXCEPT
                 !.doc.loginAttempts = loginAttempts,
                 !.doc.lockUntil = IF loginAttempts >= MAX_LOGIN_ATTEMPTS
                                     THEN pwd.now + LOCK_TIME ELSE @,
                 !.fails = @ + 1,
                 !.call[q].pc = "done", !.call[q].wrote = TRUE,
                 !.call[q].status = 400, !.call[q].code = "INVALID_CURRENT_PASSWORD",
                 !.call[q].attemptsLeft = attemptsLeft]
    /\ UNCHANGED pwRest

\* Mutant: a reset that leaves the lock.
ResetKeepsLock(doc) == [doc EXCEPT !.loginAttempts = 0]

\* $set: {loginAttempts: 0, ...}, $unset: {lockUntil: 1}
ResetAttempts(doc) == [doc EXCEPT !.loginAttempts = 0, !.lockUntil = 0]

\* The updateOne after a changed password, and the 200 answer.
PwReset(q) ==
    /\ pwd.call[q].pc = "reset"
    /\ pwd' = [pwd EXCEPT !.doc = ResetAttempts(@), !.fails = 0,
                          !.call[q].pc = "done", !.call[q].status = 200]
    /\ UNCHANGED pwRest

\* An await of the handler throws: the catch answers 500.
PwThrow(q) ==
    /\ pwd.call[q].pc \in {"start", "validate", "read", "change", "increment", "reset"}
    /\ PwAnswer(q, 500, "INTERNAL_SERVER_ERROR")
    /\ UNCHANGED pwRest

\* Better Auth creates a session of the user and runs session.create.after:
\* the updateOne of the hook resets the counters, or throws and is caught.
PwSessionCreate ==
    /\ pwd.sessions < MaxSessions
    /\ \E thrown \in BOOLEAN :
         pwd' = [pwd EXCEPT !.sessions = @ + 1,
                            !.hookFailed = thrown,
                            !.doc = IF thrown THEN @ ELSE ResetAttempts(@),
                            !.fails = IF thrown THEN @ ELSE 0]
    /\ UNCHANGED pwRest

\* Time passes.
PwTick ==
    /\ pwd.now < MaxNow
    /\ pwd' = [pwd EXCEPT !.now = @ + PwTickLen]
    /\ UNCHANGED pwRest

\* The account before the requests: fresh, one failure short of the lock, or
\* locked and then suspended.
InitPw ==
    /\ RestInit
    /\ mw = MwIdle /\ cartApi = CdIdle
    /\ pwd \in { PwState(PwDoc("p1", 0, 0, TRUE)),
                 PwState(PwDoc("p1", MAX_LOGIN_ATTEMPTS - 1, 0, TRUE)),
                 PwState(PwDoc("p1", MAX_LOGIN_ATTEMPTS, LOCK_TIME, FALSE)) }
    /\ profile = ProfIdle /\ authInst = AiIdle /\ provider = CpIdle

NextPw ==
    \/ \E q \in PwReqs :
        \/ PwBegin(q)
        \/ PwAuthenticate(q)
        \/ PwValidate(q)
        \/ PwRead(q)
        \/ PwChange(q)
        \/ PwIncrement(q)
        \/ PwReset(q)
        \/ PwThrow(q)
    \/ PwSessionCreate
    \/ PwTick

SpecPw == InitPw /\ [][NextPw]_vars

(***************************************************************************)
(* C22 as stated.  A request that found lockUntil in the future when it    *)
(* read the account has answered 423 ACCOUNT_LOCKED, has not invoked       *)
(* changePassword and has written nothing.                                 *)
(***************************************************************************)
C22_LockedAnswers423 ==
    \A q \in PwReqs :
        pwd.call[q].locked =>
            /\ pwd.call[q].pc = "done"
            /\ pwd.call[q].status = 423 /\ pwd.call[q].code = "ACCOUNT_LOCKED"
            /\ ~pwd.call[q].invoked /\ ~pwd.call[q].wrote

(***************************************************************************)
(* C22, amended.  A request that found lockUntil in the future when it     *)
(* read the account has not invoked changePassword and has written         *)
(* nothing; it has answered 423 ACCOUNT_LOCKED when the account is active  *)
(* and 403 ACCOUNT_SUSPENDED when isActive is false.                       *)
(***************************************************************************)
C22_LockedNeverChanges ==
    \A q \in PwReqs :
        pwd.call[q].locked =>
            /\ pwd.call[q].pc = "done"
            /\ ~pwd.call[q].invoked /\ ~pwd.call[q].wrote
            /\ IF pwd.call[q].userDoc.isActive
                 THEN pwd.call[q].status = 423 /\ pwd.call[q].code = "ACCOUNT_LOCKED"
                 ELSE pwd.call[q].status = 403 /\ pwd.call[q].code = "ACCOUNT_SUSPENDED"

\* A fifth failure locked the account and the next request, with the right
\* password, was answered 423.
C22_Witness ==
    \E q \in PwReqs : \E o \in PwReqs \ {q} :
        /\ pwd.call[q].locked /\ pwd.call[q].status = 423
        /\ pwd.call[q].current = pwd.doc.password
        /\ pwd.call[o].status = 400 /\ pwd.call[o].attemptsLeft = 0
        /\ pwd.doc = PwDoc("p1", MAX_LOGIN_ATTEMPTS, LOCK_TIME, TRUE)

(***************************************************************************)
(* C23.  After k failed attempts since the last reset loginAttempts is k,  *)
(* and lockUntil is set exactly when k >= 5.                               *)
(***************************************************************************)
C23_AttemptsCounted ==
    /\ pwd.doc.loginAttempts = pwd.fails
    /\ (pwd.doc.lockUntil # 0) <=> (pwd.fails >= MAX_LOGIN_ATTEMPTS)

(***************************************************************************)
(* C24 as stated.  The step that answers a password change with 200, and   *)
(* every step that creates a session, leaves loginAttempts at 0 and        *)
(* lockUntil absent.                                                       *)
(***************************************************************************)
PwChanged ==
    \E q \in PwReqs : pwd.call[q].status # 200 /\ pwd'.call[q].status = 200

PwIsReset == pwd'.doc.loginAttempts = 0 /\ pwd'.doc.lockUntil = 0

allowedFields == {"name", "phone", "avatar", "address"}

\* allowedFields.forEach(field => ... updateData[field] = validation.data[field])
PfUpdateData(data) == data \cap allowedFields

\* The fields that validation.data may carry.
PfBodies ==
    { {}, {"name"}, {"phone", "avatar", "address"}, {"name", "role", "isActive"},
      {"role", "email", "loginAttempts", "lockUntil", "isActive"} }

PfAnswer(p, st) ==
    profile' = [profile EXCEPT !.call[p].pc = "done", !.call[p].status = st]

\* isAuthenticatedUser(): session.user is the copy of the cookie while it is
\* valid, and the document, cached again, when it is not.
PfAuthenticate(p) ==
    /\ profile.call[p].pc = "start"
    /\ LET user == IF profile.cache.valid THEN profile.cache.isActive
                                          ELSE profile.doc.isActive
           c == [profile.call[p] EXCEPT !.docActive = profile.doc.isActive] IN
       profile' = [profile EXCEPT
                     !.cache = [isActive |-> user, valid |-> TRUE],
                     !.call[p] = IF user = FALSE
                                   THEN [c EXCEPT !.pc = "done", !.status = 403]
                                   ELSE [c EXCEPT !.pc = "validate"]]
    /\ UNCHANGED profRest

\* req.json(), validateProfile(), the copy of the allowed fields.
PfValidate(p) ==
    /\ profile.call[p].pc = "validate"
    /\ IF ~profile.call[p].isValid \/ PfUpdateData(profile.call[p].data) = {}
         THEN PfAnswer(p, 400)
         ELSE profile' = [profile EXCEPT
                            !.call[p].pc = "update",
                            !.call[p].updateData = PfUpdateData(profile.call[p].data)]
    /\ UNCHANGED profRest

\* getAuth(), auth.api.updateUser({body: updateData}): the fields of
\* updateData are written, isActive as true.
PfUpdate(p) ==
    /\ profile.call[p].pc = "update"
    /\ profile' = [profile EXCEPT
                     !.doc = [f \in DOMAIN @ |->
                                IF f \notin profile.call[p].updateData THEN @[f]
                                ELSE IF f = "isActive" THEN TRUE ELSE "new"],
                     !.call[p].pc = "done", !.call[p].wrote = TRUE,
                     !.call[p].status = 200]
    /\ UNCHANGED profRest

\* An await of the handler throws, or updateUser returns nothing.
PfThrow(p) ==
    /\ profile.call[p].pc \in {"start", "validate", "update"}
    /\ PfAnswer(p, 500)
    /\ UNCHANGED profRest

\* The account is deactivated in the store.
PfDeactivate ==
    /\ profile.doc.isActive
    /\ profile' = [profile EXCEPT !.doc.isActive = FALSE]
    /\ UNCHANGED profRest

\* The maxAge of cookieCache has passed.
PfCacheExpire ==
    /\ profile.cache.valid
    /\ profile' = [profile EXCEPT !.cache.valid = FALSE]
    /\ UNCHANGED profRest

InitPf ==
    /\ RestInit
    /\ mw = MwIdle /\ cartApi = CdIdle /\ pwd = PwIdle
    /\ profile \in { PfState(a, a, v, c) :
                       a \in BOOLEAN, v \in BOOLEAN,
                       c \in [PfReqs -> { PfCall(d, ok) : d \in PfBodies, ok \in BOOLEAN }] }
    /\ authInst = AiIdle /\ provider = CpIdle

NextPf ==
    \/ \E p \in PfReqs :
        \/ PfAuthenticate(p)
        \/ PfValidate(p)
        \/ PfUpdate(p)
        \/ PfThrow(p)
    \/ PfDeactivate
    \/ PfCacheExpire

SpecPf == InitPf /\ [][NextPf]_vars

(***************************************************************************)
(* C25.  A request changes no field other than name, phone, avatar and     *)
(* address, and a request of an account that was deactivated when it       *)
(* arrived has written nothing.                                            *)
(***************************************************************************)
C25_OnlyProfileFieldsOfActiveAccount ==
    /\ \A f \in DOMAIN profile.doc \ (allowedFields \cup {"isActive"}) :
          profile.doc[f] = "old"
    /\ \A p \in PfReqs : profile.call[p].wrote => profile.call[p].docActive

(***************************************************************************)
(* getAuth (src/lib/auth.js, 277-302), called by the handlers and by       *)
(* getHandler (src/unnamed/part_003, 7-13).  authInst.authInstance is 0    *)
(* for null and otherwise the number of the instance; authInst.made counts *)
(* the instances that initializeBetterAuth has returned.                   *)
(***************************************************************************)
\* Calls of getAuth in one behaviour.
MaxCalls == 4

\* if (!authInstance) { ... await initializeBetterAuth() } return authInstance
AiGetAuth(a) ==
    /\ authInst.call[a].pc = "idle"
    /\ authInst.calls < MaxCalls
    /\ authInst' = [authInst EXCEPT
                      !.calls = @ + 1,
                      !.call[a] = IF authInst.authInstance = 0
                                    THEN [pc |-> "init", got |-> 0]
                                    ELSE [pc |-> "done", got |-> authInst.authInstance]]
    /\ UNCHANGED aiRest

\* initializeBetterAuth resolves: authInstance = the new instance, returned.
AiInitialized(a) ==
    /\ authInst.call[a].pc = "init"
    /\ authInst' = [authInst EXCEPT
                      !.made = @ + 1,
                      !.authInstance = authInst.made + 1,
                      !.call[a] = [pc |-> "done", got |-> authInst.made + 1]]
    /\ UNCHANGED aiRest

\* initializeBetterAuth rejects: nothing is assigned and getAuth rejects.
AiInitFails(a) ==
    /\ authInst.call[a].pc = "init"
    /\ authInst' = [authInst EXCEPT !.call[a] = [pc |-> "failed", got |-> 0]]
    /\ UNCHANGED aiRest

\* The caller is ready to call again; it keeps the instance it holds.
AiAgain(a) ==
    /\ authInst.call[a].pc \in {"done", "failed"}
    /\ authInst.calls < MaxCalls
    /\ authInst' = [authInst EXCEPT !.call[a].pc = "idle"]
    /\ UNCHANGED aiRest

InitAi ==
    /\ RestInit
    /\ mw = MwIdle /\ cartApi = CdIdle /\ pwd = PwIdle /\ profile = ProfIdle
    /\ authInst = AiIdle /\ provider = CpIdle

NextAi ==
    \E a \in AiCallers :
        \/ AiGetAuth(a)
        \/ AiInitialized(a)
        \/ AiInitFails(a)
        \/ AiAgain(a)

SpecAi == InitAi /\ [][NextAi]_vars

(***************************************************************************)
(* C26.  The auth instance is initialised at most once, every caller that  *)
(* was answered holds the same instance, and while no initialisation has   *)
(* succeeded the instance is unset.                                        *)
(***************************************************************************)
C26_InitialisedOnce ==
    /\ authInst.made <= 1
    /\ \A a, b \in AiCallers :
          (authInst.call[a].got # 0 /\ authInst.call[b].got # 0) =>
              authInst.call[a].got = authInst.call[b].got
    /\ authInst.made = 0 => authInst.authInstance = 0

(***************************************************************************)
(* setCartToState of CartProvider (src/context/CartContext.js, 43-119),    *)
(* called by the effect of line 31 and after each change of the cart.      *)
(* provider.call[c] is a call: the step it is at, whether it found a load  *)
(* in progress, whether it has issued the GET, and how it ended.           *)
(***************************************************************************)
\* Calls of setCartToState in one behaviour.
MaxLoads == 4

\* Mutant: the guard of line 45 removed.
CpNeverSkips(ref) == FALSE

\* if (isLoadingRef.current) return
CpSkips(ref) == ref

\* A call, up to its return or to the await of fetch.
CpCall(c) ==
    /\ provider.call[c].pc \in {"idle", "done"}
    /\ provider.calls < MaxLoads
    /\ LET new == [pc |-> "done", sawLoading |-> provider.isLoadingRef,
                   fetched |-> FALSE, ok |-> FALSE, end |-> ""] IN
       IF CpSkips(provider.isLoadingRef)
         THEN provider' = [provider EXCEPT !.calls = @ + 1,
                                           !.call[c] = [new EXCEPT !.end = "skipped"]]
       ELSE IF ~provider.session
         THEN provider' = [provider EXCEPT !.calls = @ + 1,
                                           !.call[c] = [new EXCEPT !.end = "no session"]]
       ELSE provider' = [provider EXCEPT
                           !.calls = @ + 1,
                           !.isLoadingRef = TRUE,
                           !.call[c] = [new EXCEPT !.pc = "fetch", !.fetched = TRUE]]
    /\ UNCHANGED cpRest

\* fetch resolves with a response; clearTimeout; res.json() is awaited.
CpFetchResolves(c) ==
    /\ provider.call[c].pc = "fetch"
    /\ \E ok \in BOOLEAN :
         provider' = [provider EXCEPT !.call[c].pc = "json", !.call[c].ok = ok]
    /\ UNCHANGED cpRest

\* fetch rejects, by the abort of the timeout or by another error: catch,
\* then finally.
CpFetchFails(c) ==
    /\ provider.call[c].pc = "fetch"
    /\ \E kind \in {"abort", "exception"} :
         provider' = [provider EXCEPT !.isLoadingRef = FALSE,
                                      !.call[c].pc = "done", !.call[c].end = kind]
    /\ UNCHANGED cpRest

\* res.json() resolves or rejects: the HTTP error or the success, or catch;
\* then finally.
CpJson(c) ==
    /\ provider.call[c].pc = "json"
    /\ \E thrown \in BOOLEAN :
         provider' = [provider EXCEPT
                        !.isLoadingRef = FALSE,
                        !.call[c].pc = "done",
                        !.call[c].end = IF thrown THEN "exception"
                                        ELSE IF ~provider.call[c].ok THEN "http error"
                                        ELSE "success"]
    /\ UNCHANGED cpRest

InitCp ==
    /\ RestInit
    /\ mw = MwIdle /\ cartApi = CdIdle /\ pwd = PwIdle /\ profile = ProfIdle
    /\ authInst = AiIdle
    /\ provider \in { [CpIdle EXCEPT !.session = s] : s \in BOOLEAN }

NextCp ==
    \E c \in CpCallers :
        \/ CpCall(c)
        \/ CpFetchResolves(c)
        \/ CpFetchFails(c)
        \/ CpJson(c)

SpecCp == InitCp /\ [][NextCp]_vars

(***************************************************************************)
(* C27.  At most one call of setCartToState is between its fetch and its   *)
(* end; a call made while a load was in progress returned without          *)
(* fetching; and isLoadingRef is true exactly while a load is in progress, *)
(* so that it is false after each of the four ways a load ends.            *)
(***************************************************************************)
C27_OneLoadInFlight ==
    LET inFlight == { c \in CpCallers : provider.call[c].pc \in {"fetch", "json"} } IN
    /\ Cardinality(inFlight) <= 1
    /\ provider.isLoadingRef <=> (inFlight # {})
    /\ \A c \in CpCallers :
          provider.call[c].sawLoading =>
              (provider.call[c].end = "skipped" /\ ~provider.call[c].fetched)

\* A call was skipped during a load, and loads have ended in success, by an
\* abort and by an HTTP error, with the flag back to false.
C27_Witness ==
    /\ ~provider.isLoadingRef
    /\ provider.calls = MaxLoads
    /\ \E c \in CpCallers : provider.call[c].end = "skipped"
    /\ \E c \in CpCallers : provider.call[c].end \in {"abort", "http error"}
    /\ \E c \in CpCallers : provider.call[c].end = "success"

====
